---- MODULE Spec2Model ----
(***************************************************************************)
(* arxiv-triage: the paper store (table papers), its upsert, the user      *)
(* handlers that write workflow fields, and the OAI-PMH incremental        *)
(* harvest with its per-category checkpoint (table config_kv).             *)
(*                                                                         *)
(* Conventions.  A table row is a record; the table papers is a sequence   *)
(* in insertion order and, as no operation deletes, the autoincrement id   *)
(* of a row is its position.  A JSON column that is NULL holds NoneDict, a *)
(* string column that is NULL holds NoneStr.  A date-only ISO string is    *)
(* modelled by its day number, a datetime by its hour number (UTC).  An    *)
(* optional date is held as a set: empty for None, else the one value.  The*)
(* audit table actions is append-only and read by no modelled operation;   *)
(* it is left out.  n_edits counts the user requests served, to bound them.*)
(***************************************************************************)
EXTENDS Integers, Sequences, FiniteSets, TLC

(* ------------------------------ bounds -------------------------------- *)
MaxRows == 2        \* rows the table papers may hold
MaxListLen == 2     \* records in one list handed to upsert_papers
MaxEdits == 2       \* user requests (state, tags, note, score) served
MaxDay == 3         \* the clock stops at the end of this UTC day
MaxCats == 2        \* categories in one ingest_oai call
MaxPages == 2       \* pages the upstream serves in one harvest
MaxMockPages == 3   \* pages of a mock upstream
MaxFeedLen == 2     \* entries in the response parsed by fetch_arxiv
MaxSubmitDay == 7   \* last day of the timestamps handed to _announced_date

(* ----------------------------- universes ------------------------------ *)
Ids == {"2501.00001"}
Titles == {"T1", "T2"}
Notes == {"read later"}
TagNames == {"ml"}

NoneStr == "None"
NoneDict == [none |-> TRUE]
EmptyDict == [k \in {} |-> ""]

\* the requests served at the same time, each with the session get_session
\* yields for it
Sessions == {1, 2}
\* a session in which no upsert_papers call runs
IdleSession == [pc |-> "idle", L |-> << >>, i |-> 0, pending |-> << >>, updates |-> << >>]
\* a request slot in which no ingest_oai call runs
IdleRun == [pc |-> "idle", cat |-> "None", until |-> 0]

\* no response body has been received
NoText == [chunks |-> << >>, tail |-> FALSE]
\* no raw entry has been handed to a normalizer
NoRaw == [dialect |-> "none"]

\* models.py PaperState
PaperState == {"triage", "shortlist", "archived", "hidden"}
\* request bodies tried against set_state: a valid value and an invalid one
StateInputs == {"shortlist", "bogus"}
\* request bodies tried against tags
TagsInputs == {[add |-> {"ml"}, remove |-> {}], [add |-> {}, remove |-> {"ml"}]}
\* outputs of llm_rubric_score tried
RubricOutputs == {[total |-> 15]}

\* categories harvested, and cat.replace(".", ":") of each
Cats == {"cs.CV", "cs.LG"}
CatOai == [c \in Cats |-> IF c = "cs.CV" THEN "cs:CV" ELSE "cs:LG"]
\* values of the request field days tried
DaysInputs == {1, 2}
\* resumption tokens the upstream hands out
Tokens == {"tok1"}
\* the hour of day 0 at which the clock starts
StartHour == 13

VARIABLES
    papers,      \* table papers
    n_edits,     \* history: number of user requests that changed a row
    last_op,     \* history: the operation of the last step and the rows it updated
    config_kv,   \* table config_kv: key -> value
    clock,       \* the wall clock, in hours (UTC)
    pc,          \* where the ingest_oai call stands ("idle": no call in progress)
    cats, days, use_checkpoint,     \* arguments of ingest_oai
    now, until, cat_i, since,       \* locals of ingest_oai (cat_i: index of cat in cats)
    params, all_rows, page,         \* locals of harvest_oai_category
    kv_call,     \* history: config_kv when the call started
    kv_pass,     \* history: config_kv when the pass of the current category started
    failed,      \* history: per category whose last pass met a transport error, that pass
    first_from,  \* history: per category, the from of its first successful pass
    covered,     \* history: per category, the dates inside a successfully harvested range
    track,       \* which history is kept: "off", "ranges" or "retries"
    upstream,    \* the pages a mock upstream serves to harvest_oai_category, in order
    requests,    \* history: the params of the requests one harvest has sent, in order
    feed,        \* fetch_arxiv: the entries of the response
    results,     \* fetch_arxiv: the list it returns
    submitted_iso,   \* argument of _announced_date
    announced,       \* what _announced_date returned for it
    text,        \* _oai_list_records_once: the body of the response it parses
    sess,        \* the upsert_papers calls that run concurrently, one session each
    runs,        \* the ingest_oai calls for one category that overlap in time
    raw_entry,   \* the raw entry handed to a normalizer, with its dialect
    record       \* what the normalizer made of it

storeVars == <<papers, n_edits, last_op>>
callVars == <<cats, days, use_checkpoint, now, until, cat_i, since, params, all_rows, page>>
histVars == <<kv_call, kv_pass, failed, first_from, covered>>
oaiVars == <<config_kv, clock, pc, callVars, histVars, track>>
harvestVars == <<upstream, requests>>
fetchVars == <<feed, results>>
annVars == <<submitted_iso, announced>>
pageVars == <<text>>
raceVars == <<sess, runs>>
normVars == <<raw_entry, record>>
extVars == <<pageVars, raceVars, normVars>>
otherVars == <<harvestVars, fetchVars, annVars, extVars>>
vars == <<storeVars, oaiVars, otherVars>>

(* ------------------------- record normalizers ------------------------- *)
\* The dict appended by fetch_arxiv / fetch_arxiv_by_ids for an entry that
\* carries an id, a title and no optional element.
ArxivDict(arxiv_id, version, title) ==
    [arxiv_id |-> arxiv_id,
     version |-> version,
     title |-> title,
     abstract |-> "",
     authors |-> "",
     categories |-> "",
     primary_category |-> "unknown",
     submitted_at |-> NoneStr,
     updated_at |-> NoneStr,
     links_pdf |-> <<"https://arxiv.org/pdf/", arxiv_id, ".pdf">>,
     links_abs |-> <<"https://arxiv.org/abs/", arxiv_id>>,
     links_html |-> <<"https://ar5iv.org/html/", arxiv_id>>,
     extra |-> EmptyDict]

\* The entries the feed is taken to serve: version 1 under two titles, version 2.
ArxivRecords ==
    {ArxivDict(a, 1, t) : a \in Ids, t \in Titles} \cup {ArxivDict(a, 2, "T1") : a \in Ids}

RECURSIVE SeqsUpTo(_, _)
SeqsUpTo(S, n) ==
    IF n = 0 THEN {<< >>}
    ELSE LET shorter == SeqsUpTo(S, n - 1)
         IN  shorter \cup {Append(s, x) : s \in {q \in shorter : Len(q) = n - 1}, x \in S}

(* ------------------------------ the store ----------------------------- *)
\* Paper(**p): the columns of p, the column defaults for the rest.
NewPaper(p, id) ==
    [id |-> id,
     arxiv_id |-> p.arxiv_id,
     version |-> p.version,
     title |-> p.title,
     abstract |-> p.abstract,
     authors |-> p.authors,
     categories |-> p.categories,
     primary_category |-> p.primary_category,
     submitted_at |-> p.submitted_at,
     updated_at |-> p.updated_at,
     links_pdf |-> p.links_pdf,
     links_abs |-> p.links_abs,
     links_html |-> p.links_html,
     extra |-> p.extra,
     tags |-> NoneDict,
     signals |-> NoneDict,
     state |-> "triage"]

\* mutant: the stored row is replaced by a fresh Paper(**p) that keeps its id
SetAttrsReplace(row, p) ==
    NewPaper(p, row.id)

\* for k, v in p.items(): setattr(row, k, v)
SetAttrs(row, p) ==
    [k \in DOMAIN row |-> IF k \in DOMAIN p THEN p[k] ELSE row[k]]

\* select(Paper).where(arxiv_id == ..., version == ...): the session does not
\* autoflush, so the query sees the rows of the table and none of the rows
\* added earlier in the same call.
Matches(rows, p) ==
    {i \in DOMAIN rows : rows[i].arxiv_id = p.arxiv_id /\ rows[i].version = p.version}

\* The loop of upsert_papers over L. rows: the table with this call's updates
\* applied; pending: the rows added and not yet flushed; updated: ids updated.
RECURSIVE UpsertLoop(_, _, _, _)
UpsertLoop(rows, pending, updated, L) ==
    IF L = << >>
    THEN [ok |-> TRUE, papers |-> rows \o pending, updated |-> updated]
    ELSE LET p == Head(L)
             m == Matches(rows, p)
         IN  IF Cardinality(m) > 1
             THEN \* scalar_one_or_none raises MultipleResultsFound; nothing is committed
                  [ok |-> FALSE, papers |-> << >>, updated |-> {}]
             ELSE IF m # {}
             THEN LET i == CHOOSE j \in m : TRUE
                  IN  UpsertLoop([rows EXCEPT ![i] = SetAttrs(rows[i], p)],
                                 pending, updated \cup {i}, Tail(L))
             ELSE UpsertLoop(rows,
                             Append(pending, NewPaper(p, Len(rows) + Len(pending) + 1)),
                             updated, Tail(L))

\* mutant: "keep latest": a row is deleted when the call leaves a row of the
\* same arxiv_id with a higher version
upsert_papers_keep_latest(rows, L) ==
    LET r == UpsertLoop(rows, << >>, {}, L)
        latest(t) == SelectSeq(t, LAMBDA x :
                        \A j \in DOMAIN t :
                            t[j].arxiv_id = x.arxiv_id => t[j].version <= x.version)
    IN  IF r.ok THEN [r EXCEPT !.papers = latest(r.papers)] ELSE [r EXCEPT !.papers = rows]

\* upsert_papers(session, papers): the table after the call, or the table as
\* it was when the call raised.
upsert_papers(rows, L) ==
    LET r == UpsertLoop(rows, << >>, {}, L)
    IN  IF r.ok THEN r ELSE [r EXCEPT !.papers = rows]

(* ----------------------------- operations ----------------------------- *)
InitBase ==
    /\ papers = << >>
    /\ n_edits = 0
    /\ last_op = [op |-> "init", updated |-> {}]
    /\ config_kv = EmptyDict
    /\ clock = StartHour
    /\ pc = "idle"
    /\ cats = << >>
    /\ days = 0
    /\ use_checkpoint = FALSE
    /\ now = 0
    /\ until = 0
    /\ cat_i = 0
    /\ since = 0
    /\ params = EmptyDict
    /\ all_rows = << >>
    /\ page = 0
    /\ kv_call = EmptyDict
    /\ kv_pass = EmptyDict
    /\ failed = EmptyDict
    /\ first_from = EmptyDict
    /\ covered = [c \in Cats |-> {}]
    /\ requests = << >>
    /\ results = << >>
    /\ announced = {}
    /\ text = NoText
    /\ sess = [s \in Sessions |-> IdleSession]
    /\ runs = [s \in Sessions |-> IdleRun]
    /\ record = {}

\* No mock upstream is installed, no feed has been received and
\* _announced_date has no argument.
NoInputs ==
    /\ upstream = << >>
    /\ feed = << >>
    /\ submitted_iso = NoneStr
    /\ raw_entry = NoRaw

Init == InitBase /\ NoInputs /\ track = "off"

\* The lists fetch_arxiv may return.
ArxivLists == SeqsUpTo(ArxivRecords, MaxListLen)

\* ingest_today: fetch_arxiv returned L; upsert it.
IngestToday ==
    \E L \in ArxivLists :
        \E r \in {upsert_papers(papers, L)} :
            /\ Len(r.papers) <= MaxRows
            /\ papers' = r.papers
            /\ last_op' = [op |-> IF r.ok THEN "upsert" ELSE "upsert_error", updated |-> r.updated]
            /\ UNCHANGED <<n_edits, oaiVars, otherVars>>

\* ingest_by_id: fetch_arxiv_by_ids([arxiv_id]) returned L; upsert it.
IngestById ==
    \E arxiv_id \in Ids :
        \E L \in SeqsUpTo({r \in ArxivRecords : r.arxiv_id = arxiv_id}, 1) :
            LET r == upsert_papers(papers, L)
            IN  /\ Len(r.papers) <= MaxRows
                /\ papers' = r.papers
                /\ last_op' = [op |-> IF r.ok THEN "upsert" ELSE "upsert_error",
                               updated |-> r.updated]
                /\ UNCHANGED <<n_edits, oaiVars, otherVars>>

\* The ids a request may name: those of the stored rows and one that is not stored.
PaperIds == 1..(Len(papers) + 1)

\* POST /papers/{paper_id}/state
set_state ==
    \E paper_id \in PaperIds, st \in StateInputs :
        IF st \notin PaperState
        THEN UNCHANGED vars
        ELSE IF paper_id \notin DOMAIN papers
        THEN UNCHANGED vars
        ELSE /\ n_edits < MaxEdits
             /\ papers' = [papers EXCEPT ![paper_id].state = st]
             /\ n_edits' = n_edits + 1
             /\ last_op' = [op |-> "edit", updated |-> {}]
             /\ UNCHANGED <<oaiVars, otherVars>>

\* (paper.tags or {}).get("list", [])
TagList(row) ==
    IF row.tags = NoneDict \/ "list" \notin DOMAIN row.tags THEN {} ELSE row.tags.list

\* POST /papers/{paper_id}/tags; the sorted list of a set is held as the set.
tags ==
    \E paper_id \in PaperIds, body \in TagsInputs :
        IF paper_id \notin DOMAIN papers
        THEN UNCHANGED vars
        ELSE /\ n_edits < MaxEdits
             /\ papers' = [papers EXCEPT ![paper_id].tags =
                                [list |-> (TagList(papers[paper_id]) \cup body.add) \ body.remove]]
             /\ n_edits' = n_edits + 1
             /\ last_op' = [op |-> "edit", updated |-> {}]
             /\ UNCHANGED <<oaiVars, otherVars>>

\* dict(d or {}) with d[key] = value
DictSet(d, key, value) ==
    LET base == IF d = NoneDict THEN EmptyDict ELSE d
    IN  [k \in DOMAIN base \cup {key} |-> IF k = key THEN value ELSE base[k]]

\* POST /papers/{paper_id}/note
set_note ==
    \E paper_id \in PaperIds, note_text \in Notes :
        IF paper_id \notin DOMAIN papers
        THEN UNCHANGED vars
        ELSE /\ n_edits < MaxEdits
             /\ papers' = [papers EXCEPT ![paper_id].extra =
                                DictSet(papers[paper_id].extra, "note", note_text)]
             /\ n_edits' = n_edits + 1
             /\ last_op' = [op |-> "edit", updated |-> {}]
             /\ UNCHANGED <<oaiVars, otherVars>>

\* POST /papers/{paper_id}/score
score_paper ==
    \E paper_id \in PaperIds, scores \in RubricOutputs :
        IF paper_id \notin DOMAIN papers
        THEN UNCHANGED vars
        ELSE /\ n_edits < MaxEdits
             /\ papers' = [papers EXCEPT ![paper_id].signals =
                                DictSet(papers[paper_id].signals, "rubric", scores)]
             /\ n_edits' = n_edits + 1
             /\ last_op' = [op |-> "edit", updated |-> {}]
             /\ UNCHANGED <<oaiVars, otherVars>>

(* ------------------------- the OAI-PMH harvest ------------------------ *)
\* The dict returned by _parse_oai_record for a record that carries an
\* identifier, a title, a version history and no other optional element.
OaiDict(arxiv_id, version, title) ==
    [arxiv_id |-> arxiv_id,
     version |-> version,
     title |-> title,
     abstract |-> "",
     authors |-> "",
     categories |-> "",
     primary_category |-> "unknown",
     submitted_at |-> NoneStr,
     updated_at |-> NoneStr,
     links_pdf |-> <<"https://arxiv.org/pdf/", arxiv_id, ".pdf">>,
     links_abs |-> <<"https://arxiv.org/abs/", arxiv_id>>,
     links_html |-> <<"https://ar5iv.org/html/", arxiv_id>>,
     extra |-> EmptyDict]

\* The record lists one page of the upstream is taken to yield.
OaiPages ==
    {<< >>, <<OaiDict("2501.00001", 1, "T1")>>}

\* dt.astimezone(timezone.utc).date().isoformat(), as a day number
_utc_date_only(dt) == dt \div 24

\* timedelta(days=n), in hours
timedelta(n) == n * 24

\* key = f"oai_last_{cat}"
OaiKey(cat) == <<"oai_last_", cat>>

\* get_oai_checkpoint: the stored datestamp, or None
get_oai_checkpoint(kv, cat) ==
    IF OaiKey(cat) \in DOMAIN kv /\ "datestamp" \in DOMAIN kv[OaiKey(cat)]
    THEN {kv[OaiKey(cat)].datestamp}
    ELSE {}

\* set_oai_checkpoint: the row of the key is created or its value replaced
set_oai_checkpoint(kv, cat, datestamp) ==
    [k \in DOMAIN kv \cup {OaiKey(cat)} |->
        IF k = OaiKey(cat) THEN [datestamp |-> datestamp] ELSE kv[k]]

\* The parameters of the first request of a harvest, and of a later one.
FirstParams(cat, since_date_iso, until_date_iso) ==
    [verb |-> "ListRecords",
     metadataPrefix |-> "arXiv",
     set |-> <<"cs:", CatOai[cat]>>,
     from |-> since_date_iso,
     until |-> until_date_iso]

TokenParams(token) ==
    [verb |-> "ListRecords", resumptionToken |-> token]

\* _oai_list_records_once: the token of a response; an absent element and an
\* empty one both give None.
ParseToken(raw) ==
    IF raw = NoneStr \/ raw = "" THEN NoneStr ELSE raw

cat == cats[cat_i]

\* ingest_oai_ep calls ingest_oai, which fixes now and until for the whole call.
OaiStart ==
    /\ pc = "idle"
    /\ \E cs \in SeqsUpTo(Cats, MaxCats) \ {<< >>}, d \in DaysInputs, uc \in BOOLEAN :
          /\ cats' = cs
          /\ days' = d
          /\ use_checkpoint' = uc
    /\ now' = clock
    /\ until' = _utc_date_only(clock)
    /\ cat_i' = 1
    /\ pc' = "loop"
    /\ kv_call' = config_kv
    /\ UNCHANGED <<storeVars, otherVars, config_kv, clock, track, since, params, all_rows, page,
                   kv_pass, failed, first_from, covered>>

\* Top of the loop over cats: since is read or defaulted, and the first
\* request of harvest_oai_category goes out.
OaiLoop ==
    /\ pc = "loop"
    /\ LET ck == IF use_checkpoint THEN get_oai_checkpoint(config_kv, cat) ELSE {}
           s == IF ck # {} THEN CHOOSE x \in ck : TRUE
                ELSE _utc_date_only(now - timedelta(days))
       IN  /\ since' = s
           /\ params' = FirstParams(cat, s, until)
    /\ all_rows' = << >>
    /\ page' = 1
    /\ kv_pass' = config_kv
    /\ pc' = "request"
    /\ UNCHANGED <<storeVars, otherVars, config_kv, clock, track, cats, days, use_checkpoint,
                   now, until, cat_i, kv_call, failed, first_from, covered>>

\* history: the category's failed pass is forgotten once a later pass has
\* got past its first request
Forget(f, c) == [x \in DOMAIN f \ {c} |-> f[x]]

\* mutant: the checkpoint is advanced as each page arrives
OaiResponseCheckpointEachPage ==
    /\ pc = "request"
    /\ \E rows \in OaiPages, raw \in Tokens \cup {"", NoneStr} :
          LET token == ParseToken(raw)
              total == all_rows \o rows
          IN  /\ token # NoneStr => page < MaxPages
              /\ Len(UpsertLoop(papers, << >>, {}, total).papers) <= MaxRows
              /\ all_rows' = total
              /\ IF token = NoneStr
                 THEN /\ pc' = "upsert"
                      /\ UNCHANGED params
                 ELSE /\ pc' = "sleep"
                      /\ params' = TokenParams(token)
    /\ config_kv' = set_oai_checkpoint(config_kv, cat, until)
    /\ UNCHANGED <<storeVars, otherVars, clock, track, cats, days, use_checkpoint,
                   now, until, cat_i, since, page, histVars>>

\* A response arrives with status 2xx: its records are appended; with a token
\* the next request is prepared and the harvest sleeps, without one it ends.
OaiResponse ==
    /\ pc = "request"
    /\ \E rows \in OaiPages, raw \in Tokens \cup {"", NoneStr} :
          LET token == ParseToken(raw)
              total == all_rows \o rows
          IN  /\ token # NoneStr => page < MaxPages
              /\ Len(UpsertLoop(papers, << >>, {}, total).papers) <= MaxRows
              /\ all_rows' = total
              /\ IF token = NoneStr
                 THEN /\ pc' = "upsert"
                      /\ UNCHANGED params
                 ELSE /\ pc' = "sleep"
                      /\ params' = TokenParams(token)
    /\ failed' = Forget(failed, cat)
    /\ UNCHANGED <<storeVars, otherVars, config_kv, clock, track, cats, days, use_checkpoint,
                   now, until, cat_i, since, page, kv_call, kv_pass, first_from, covered>>

\* mutant: the checkpoint is written on the way out of a failed harvest
OaiTransportErrorAdvance ==
    /\ pc = "request"
    /\ pc' = "raise_transport"
    /\ config_kv' = set_oai_checkpoint(config_kv, cat, until)
    /\ UNCHANGED <<storeVars, otherVars, clock, track, callVars, histVars>>

\* mutant: the error is swallowed and the loop goes on to the next category
OaiTransportErrorContinue ==
    /\ pc = "request"
    /\ IF cat_i < Len(cats)
       THEN /\ cat_i' = cat_i + 1
            /\ pc' = "loop"
       ELSE /\ pc' = "return"
            /\ UNCHANGED cat_i
    /\ UNCHANGED <<storeVars, otherVars, config_kv, clock, track, cats, days, use_checkpoint,
                   now, until, since, params, all_rows, page, histVars>>

\* The request fails (transport error or raise_for_status): the error leaves
\* harvest_oai_category and ingest_oai.
OaiTransportError ==
    /\ pc = "request"
    /\ pc' = "raise_transport"
    /\ failed' = IF track = "retries"
                 THEN [c \in DOMAIN failed \cup {cat} |->
                          IF c = cat
                          THEN [from |-> since, days |-> days,
                                use_checkpoint |-> use_checkpoint]
                          ELSE failed[c]]
                 ELSE failed
    /\ UNCHANGED <<storeVars, otherVars, config_kv, clock, track, callVars, kv_call, kv_pass,
                   first_from, covered>>

\* asyncio.sleep(delay_seconds) returns: the next page is requested.
OaiSleepDone ==
    /\ pc = "sleep"
    /\ page' = page + 1
    /\ pc' = "request"
    /\ UNCHANGED <<storeVars, otherVars, config_kv, clock, track, cats, days, use_checkpoint,
                   now, until, cat_i, since, params, all_rows, histVars>>

\* The call is cancelled while it awaits a response or sleeps between pages.
OaiCancel ==
    /\ pc \in {"request", "sleep"}
    /\ pc' = "cancelled"
    /\ failed' = Forget(failed, cat)
    /\ UNCHANGED <<storeVars, otherVars, config_kv, clock, track, callVars, kv_call, kv_pass,
                   first_from, covered>>

\* mutant: the harvested rows are dropped and the checkpoint written all the same
OaiUpsertSkip ==
    /\ pc = "upsert"
    /\ pc' = "checkpoint"
    /\ UNCHANGED <<storeVars, otherVars, config_kv, clock, track, callVars, histVars>>

\* if rows: await upsert_papers(session, rows)
OaiUpsert ==
    /\ pc = "upsert"
    /\ IF all_rows # << >>
       THEN LET r == upsert_papers(papers, all_rows)
            IN  /\ papers' = r.papers
                /\ pc' = IF r.ok THEN "checkpoint" ELSE "raise_store"
       ELSE /\ pc' = "checkpoint"
            /\ UNCHANGED papers
    /\ UNCHANGED <<n_edits, last_op, otherVars, config_kv, clock, track, callVars, histVars>>

\* mutant: the checkpoint is set to since, the start of the harvested range
OaiSetCheckpointSince ==
    /\ pc = "checkpoint"
    /\ config_kv' = set_oai_checkpoint(config_kv, cat, since)
    /\ IF cat_i < Len(cats)
       THEN /\ cat_i' = cat_i + 1
            /\ pc' = "loop"
       ELSE /\ pc' = "return"
            /\ UNCHANGED cat_i
    /\ UNCHANGED <<storeVars, otherVars, clock, track, cats, days, use_checkpoint, now, until,
                   since, params, all_rows, page, histVars>>

\* await set_oai_checkpoint(session, cat, until), then the next category or
\* the return.
OaiSetCheckpoint ==
    /\ pc = "checkpoint"
    /\ config_kv' = set_oai_checkpoint(config_kv, cat, until)
    /\ first_from' = IF track = "ranges" /\ cat \notin DOMAIN first_from
                     THEN [c \in DOMAIN first_from \cup {cat} |->
                              IF c = cat THEN since ELSE first_from[c]]
                     ELSE first_from
    /\ covered' = IF track = "ranges" THEN [covered EXCEPT ![cat] = @ \cup (since..until)]
                  ELSE covered
    /\ IF cat_i < Len(cats)
       THEN /\ cat_i' = cat_i + 1
            /\ pc' = "loop"
       ELSE /\ pc' = "return"
            /\ UNCHANGED cat_i
    /\ UNCHANGED <<storeVars, otherVars, clock, track, cats, days, use_checkpoint, now, until,
                   since, params, all_rows, page, kv_call, kv_pass, failed>>

\* ingest_oai_ep answers (the count, or 502 for an exception) or is torn down
\* by the cancellation; the call's locals are gone.
OaiEnd ==
    /\ pc \in {"return", "raise_transport", "raise_store", "cancelled"}
    /\ pc' = "idle"
    /\ cats' = << >>
    /\ days' = 0
    /\ use_checkpoint' = FALSE
    /\ now' = 0
    /\ until' = 0
    /\ cat_i' = 0
    /\ since' = 0
    /\ params' = EmptyDict
    /\ all_rows' = << >>
    /\ page' = 0
    /\ kv_call' = EmptyDict
    /\ kv_pass' = EmptyDict
    /\ text' = NoText
    /\ UNCHANGED <<storeVars, harvestVars, fetchVars, annVars, raceVars, normVars,
                   config_kv, clock, track, failed, first_from, covered>>

\* A day passes. The call reads the clock once, on entry, so time that passes
\* during a call is time that passes before the next one.
Tick ==
    /\ pc = "idle"
    /\ _utc_date_only(clock + 24) <= MaxDay
    /\ clock' = clock + 24
    /\ UNCHANGED <<storeVars, otherVars, config_kv, track, pc, callVars, histVars>>

NextOai ==
    \/ OaiStart
    \/ OaiLoop
    \/ OaiResponse
    \/ OaiTransportError
    \/ OaiSleepDone
    \/ OaiCancel
    \/ OaiUpsert
    \/ OaiSetCheckpoint
    \/ OaiEnd
    \/ Tick

SpecOai == Init /\ [][NextOai]_vars

\* The same program with the [from, until] ranges of the successful passes kept.
InitRanges == InitBase /\ NoInputs /\ track = "ranges"

SpecOaiRanges == InitRanges /\ [][NextOai]_vars

\* The same program with the last failed pass of each category kept.
InitRetries == InitBase /\ NoInputs /\ track = "retries"

SpecOaiRetries == InitRetries /\ [][NextOai]_vars

Next ==
    \/ IngestToday
    \/ IngestById
    \/ set_state
    \/ tags
    \/ set_note
    \/ score_paper


Spec == Init /\ [][Next]_vars

(* --------------------- the records of an OAI response ------------------ *)
MaxPageLen == 2     \* <record> chunks in one response body

\* The version attribute of a <version> element, by what the parser reads
\* from it: whether it starts with "v", and the integer int() reads from the
\* rest (none when int() raises or the attribute is absent).
VLabel(v, int) == [v |-> v, int |-> int]

\* vnum: int(vlabel[1:]) for a label that starts with "v", 0 for any other and
\* for one whose rest is no integer
vnum(vlabel) ==
    IF vlabel.v /\ vlabel.int # {} THEN CHOOSE n \in vlabel.int : TRUE ELSE 0

\* max([v for v, _ in versions], default=1)
MaxVersion(versions) ==
    IF versions = << >> THEN 1
    ELSE LET vs == {vnum(versions[i]) : i \in DOMAIN versions}
         IN  CHOOSE m \in vs : \A x \in vs : m >= x

\* identifier.split(':')[-1]; an identifier is held as its parts between colons
LastPart(identifier) == identifier[Len(identifier)]

\* The dict _parse_oai_record returns for a chunk that got past its checks;
\* categories is the list of the tokens of <categories> (",".join(cats) is
\* held as the list).
OaiRecordDict(c) ==
    [OaiDict(LastPart(c.identifier), MaxVersion(c.versions), c.title)
        EXCEPT !.categories = c.categories,
               !.primary_category = IF c.categories # << >> THEN c.categories[1]
                                    ELSE "unknown"]

\* mutant: the status attribute of the header is not looked at
_parse_oai_record_keep_deleted(c, junk) ==
    IF ~c.xml \/ junk THEN {}
    ELSE IF ~c.header THEN {}
    ELSE IF c.identifier = << >> THEN {}
    ELSE IF ~c.metadata THEN {}
    ELSE {OaiRecordDict(c)}

\* _parse_oai_record(record_xml): {} for None, else the one dict. c is the
\* chunk from <record> to </record>; junk says that record_xml goes on with
\* further elements or closing tags after </record>, which ET.fromstring
\* rejects as it rejects a chunk that is not well formed.
_parse_oai_record(c, junk) ==
    IF ~c.xml \/ junk THEN {}
    ELSE IF ~c.header THEN {}
    ELSE IF c.status = "deleted" THEN {}
    ELSE IF c.identifier = << >> THEN {}
    ELSE IF ~c.metadata THEN {}
    ELSE {OaiRecordDict(c)}

\* The n-th chunk of text.split('<record>')[1:] runs up to the next <record>,
\* the last one up to the end of the body.
ParseAt(t, n) == _parse_oai_record(t.chunks[n], n = Len(t.chunks) /\ t.tail)

\* The loop of _oai_list_records_once over the first n chunks.
RECURSIVE ListRecords(_, _)
ListRecords(t, n) ==
    IF n = 0 THEN << >>
    ELSE ListRecords(t, n - 1) \o
         (IF ParseAt(t, n) = {} THEN << >> ELSE <<CHOOSE r \in ParseAt(t, n) : TRUE>>)

\* _oai_list_records_once, from `text = r.text` to the list `out`
_oai_list_records_once(t) == ListRecords(t, Len(t.chunks))

OaiIdentifiers == {<<"oai", "arXiv", "2501.00001">>, <<"oai", "arXiv", "2501.00002">>}

\* A well-formed record: header with identifier, metadata with an arXiv element.
RawRecord(identifier, title, versions) ==
    [xml |-> TRUE, header |-> TRUE, status |-> NoneStr, identifier |-> identifier,
     metadata |-> TRUE, title |-> title, versions |-> versions, categories |-> << >>]

\* The chunks a response is taken to hold: well-formed records with a history
\* of one version, of two versions, of one version whose label is no "vN", and
\* without a history; a record flagged deleted (with and without a metadata
\* element); a chunk that is no well-formed XML; a record whose identifier
\* element is empty.
RawRecords ==
    {RawRecord(<<"oai", "arXiv", "2501.00001">>, "T1", <<VLabel(TRUE, {1})>>),
     RawRecord(<<"oai", "arXiv", "2501.00002">>, "T2",
               <<VLabel(TRUE, {1}), VLabel(TRUE, {2})>>),
     RawRecord(<<"oai", "arXiv", "2501.00002">>, "T1", <<VLabel(FALSE, {2})>>),
     RawRecord(<<"oai", "arXiv", "2501.00001">>, "T1", << >>),
     [RawRecord(<<"oai", "arXiv", "2501.00001">>, "T2", <<VLabel(TRUE, {1})>>)
         EXCEPT !.status = "deleted"],
     [RawRecord(<<"oai", "arXiv", "2501.00002">>, "", << >>)
         EXCEPT !.status = "deleted", !.metadata = FALSE],
     [RawRecord(<<"oai", "arXiv", "2501.00001">>, "T1", <<VLabel(TRUE, {1})>>)
         EXCEPT !.xml = FALSE],
     RawRecord(<< >>, "T1", <<VLabel(TRUE, {1})>>)}

\* The response bodies: up to MaxPageLen chunks, followed (tail) or not by the
\* closing tags of the envelope or a resumptionToken element.
PageTexts ==
    [chunks : SeqsUpTo(RawRecords, MaxPageLen), tail : BOOLEAN]

\* The last page of a harvest arrives with status 2xx and is parsed.
OaiPageResponse ==
    /\ pc = "request"
    /\ \E t \in PageTexts :
          LET total == all_rows \o _oai_list_records_once(t)
          IN  /\ Len(UpsertLoop(papers, << >>, {}, total).papers) <= MaxRows
              /\ text' = t
              /\ all_rows' = total
    /\ pc' = "upsert"
    /\ failed' = Forget(failed, cat)
    /\ UNCHANGED <<storeVars, harvestVars, fetchVars, annVars, raceVars, normVars,
                   config_kv, clock, track, cats, days, use_checkpoint, now, until,
                   cat_i, since, params, page, kv_call, kv_pass, first_from, covered>>

\* ingest_oai is called for one category, with days = 1 and use_checkpoint.
OaiStartOne ==
    OaiStart /\ Len(cats') = 1 /\ days' = 1 /\ use_checkpoint'

NextOaiPage ==
    \/ OaiStartOne
    \/ OaiLoop
    \/ OaiPageResponse
    \/ OaiUpsert
    \/ OaiSetCheckpoint
    \/ OaiEnd

\* ingest_oai for one category against an upstream whose harvests take one page.
SpecOaiPage == Init /\ [][NextOaiPage]_vars

(* ------------------ one harvest against a mock upstream ---------------- *)
\* The bodies of the pages of the mock upstream: no record, one record, two
\* records, each followed (tail) or not by further elements or closing tags.
MockTexts ==
    [chunks : {<< >>,
               <<RawRecord(<<"oai", "arXiv", "2501.00001">>, "T1", <<VLabel(TRUE, {1})>>)>>,
               <<RawRecord(<<"oai", "arXiv", "2501.00002">>, "T2",
                           <<VLabel(TRUE, {1}), VLabel(TRUE, {2})>>),
                 RawRecord(<<"oai", "arXiv", "2501.00001">>, "T1", <<VLabel(TRUE, {1})>>)>>},
     tail : BOOLEAN]

\* The text of the resumptionToken element of a page that is not the last.
MockTokens == {"tokA", "tokB"}

\* The last page carries an empty resumptionToken element or none.
LastTokens == {"", NoneStr}

\* The pages of the mock upstream. A resumptionToken element stands after the
\* records of its page, as in an OAI-PMH response.
MockPages ==
    {p \in [text : MockTexts, raw : MockTokens \cup LastTokens] :
        p.raw # NoneStr => p.text.tail}

\* The mock upstreams: N pages, 1 <= N <= MaxMockPages; pages 1..N-1 carry a
\* token, page N carries none.
MockUpstreams ==
    {us \in SeqsUpTo(MockPages, MaxMockPages) :
        /\ us # << >>
        /\ \A i \in DOMAIN us : (us[i].raw \in LastTokens) <=> (i = Len(us))}

InitHarvest ==
    /\ InitBase
    /\ track = "off"
    /\ upstream \in MockUpstreams
    /\ feed = << >>
    /\ submitted_iso = NoneStr
    /\ raw_entry = NoRaw

\* harvest_oai_category(cat, since_date_iso, until_date_iso) is called: the
\* first params, the empty accumulator, page = 0.
HarvestCall ==
    /\ pc = "idle"
    /\ upstream # << >>
    /\ \E c \in Cats, d \in DaysInputs :
          params' = FirstParams(c, _utc_date_only(clock - timedelta(d)), _utc_date_only(clock))
    /\ all_rows' = << >>
    /\ page' = 0
    /\ requests' = << >>
    /\ pc' = "h_request"
    /\ UNCHANGED <<storeVars, config_kv, clock, track, cats, days, use_checkpoint, now,
                   until, cat_i, since, histVars, upstream, fetchVars, annVars, extVars>>

\* mutant: the token is added to the params of the request before
HarvestResponseMergeParams ==
    /\ pc = "h_request"
    /\ page + 1 <= Len(upstream)
    /\ page' = page + 1
    /\ requests' = Append(requests, params)
    /\ LET rows == _oai_list_records_once(upstream[page + 1].text)
           token == ParseToken(upstream[page + 1].raw)
       IN  /\ all_rows' = all_rows \o rows
           /\ IF token = NoneStr
              THEN /\ pc' = "h_return"
                   /\ UNCHANGED params
              ELSE /\ pc' = "h_sleep"
                   /\ params' = [k \in DOMAIN params \cup {"resumptionToken"} |->
                                    IF k = "resumptionToken" THEN token ELSE params[k]]
    /\ UNCHANGED <<storeVars, config_kv, clock, track, cats, days, use_checkpoint, now,
                   until, cat_i, since, histVars, upstream, fetchVars, annVars, extVars>>

\* One turn of the while loop: page += 1, the request with the current params
\* is answered by the next page of the upstream, the rows parsed from its body
\* extend all_rows;
\* without a token the loop breaks, with one the next params are set and the
\* harvest sleeps.
HarvestResponse ==
    /\ pc = "h_request"
    /\ page + 1 <= Len(upstream)
    /\ page' = page + 1
    /\ requests' = Append(requests, params)
    /\ LET rows == _oai_list_records_once(upstream[page + 1].text)
           token == ParseToken(upstream[page + 1].raw)
       IN  /\ all_rows' = all_rows \o rows
           /\ IF token = NoneStr
              THEN /\ pc' = "h_return"
                   /\ UNCHANGED params
              ELSE /\ pc' = "h_sleep"
                   /\ params' = TokenParams(token)
    /\ UNCHANGED <<storeVars, config_kv, clock, track, cats, days, use_checkpoint, now,
                   until, cat_i, since, histVars, upstream, fetchVars, annVars, extVars>>

\* asyncio.sleep(delay_seconds) returns and the loop goes round.
HarvestSleepDone ==
    /\ pc = "h_sleep"
    /\ pc' = "h_request"
    /\ UNCHANGED <<storeVars, config_kv, clock, track, callVars, histVars, otherVars>>

\* return all_rows: the caller has the list and the locals are gone.
HarvestReturn ==
    /\ pc = "h_return"
    /\ pc' = "idle"
    /\ params' = EmptyDict
    /\ all_rows' = << >>
    /\ page' = 0
    /\ requests' = << >>
    /\ UNCHANGED <<storeVars, config_kv, clock, track, cats, days, use_checkpoint, now,
                   until, cat_i, since, histVars, upstream, fetchVars, annVars, extVars>>

NextHarvest ==
    \/ HarvestCall
    \/ HarvestResponse
    \/ HarvestSleepDone
    \/ HarvestReturn
    \/ Tick

\* The event loop resumes a coroutine whose awaited response or timer is due.
SpecHarvest ==
    /\ InitHarvest
    /\ [][NextHarvest]_vars
    /\ WF_vars(HarvestResponse)
    /\ WF_vars(HarvestSleepDone)

(* --------------------------- timestamp strings ------------------------- *)
\* A timestamp string is held by what dateutil reads from it: kind "none" for
\* an absent value, "empty" for the empty string, "garbage" for a string the
\* parser rejects, "ts" for a date and time, with its wall-clock minute
\* (minute 0 is Monday 00:00), whether it carries a UTC offset, and the offset
\* in minutes (0 when it carries none).
Ts(wall, aware, off) == [kind |-> "ts", wall |-> wall, aware |-> aware, off |-> off]
TsNone == [kind |-> "none", wall |-> 0, aware |-> FALSE, off |-> 0]
TsEmpty == [kind |-> "empty", wall |-> 0, aware |-> FALSE, off |-> 0]
TsGarbage == [kind |-> "garbage", wall |-> 0, aware |-> FALSE, off |-> 0]

\* `if s`: None and the empty string are falsy
Truthy(s) == s.kind \notin {"none", "empty"}

\* dtp.parse(s) raises for a string it cannot read
ParseRaises(s) == s.kind = "garbage"

(* ------------------------- the windowed fetch -------------------------- *)
\* _to_utc(dt): None stays None, a naive datetime is marked UTC, an aware one
\* is converted.
_to_utc(dt) ==
    IF dt.kind = "none" THEN TsNone
    ELSE IF ~dt.aware THEN Ts(dt.wall, TRUE, 0)
    ELSE Ts(dt.wall - dt.off, TRUE, 0)

\* pub_dt, upd_dt: one try block parses both, so either failure leaves both None.
ParsedTimes(e) ==
    IF (Truthy(e.published) /\ ParseRaises(e.published))
           \/ (Truthy(e.updated) /\ ParseRaises(e.updated))
    THEN [pub_dt |-> TsNone, upd_dt |-> TsNone]
    ELSE [pub_dt |-> IF Truthy(e.published) THEN e.published ELSE TsNone,
          upd_dt |-> IF Truthy(e.updated) THEN e.updated ELSE TsNone]

\* cutoff = now - timedelta(days=days), in minutes
Cutoff(now_h, days_n) == (now_h - timedelta(days_n)) * 60

\* The entry gets past the id pattern and the window filter.
Kept(e, cutoff) ==
    LET t == ParsedTimes(e)
        pub_dt_utc == _to_utc(t.pub_dt)
        upd_dt_utc == _to_utc(t.upd_dt)
    IN  /\ e.id.wellformed
        /\ \/ pub_dt_utc.kind = "ts" /\ pub_dt_utc.wall >= cutoff
           \/ upd_dt_utc.kind = "ts" /\ upd_dt_utc.wall >= cutoff

\* (_type or "").endswith("pdf")
EndsWithPdf(type) == type = "application/pdf"

\* The loop over the <link href=... rel=... type=...> elements of an entry
\* (a link is its href, rel and type, type "" when it has none): html_abs is
\* the href of the last link with rel "alternate", pdf_link that of the last
\* link with rel "related" whose type ends in pdf; {} for None, without such
\* a link.
LastHref(links, m) ==
    IF m = {} THEN {}
    ELSE {links[CHOOSE i \in m : \A j \in m : i >= j].href}

html_abs(links) ==
    LastHref(links, {i \in DOMAIN links : links[i].rel = "alternate"})

pdf_link(links) ==
    LastHref(links, {i \in DOMAIN links :
                        links[i].rel = "related" /\ EndsWithPdf(links[i].type)})

\* mutant: the links and the primary category are left empty when the entry
\* has none
FetchDictNoDefaults(e) ==
    LET t == ParsedTimes(e)
    IN  [arxiv_id |-> e.id.arxiv_id,
         version |-> IF e.id.v = 0 THEN 1 ELSE e.id.v,
         title |-> e.title,
         abstract |-> "",
         authors |-> "",
         categories |-> e.cats,
         primary_category |-> IF e.cats # << >> THEN e.cats[1] ELSE "",
         submitted_at |-> _to_utc(t.pub_dt),
         updated_at |-> _to_utc(t.upd_dt),
         links_pdf |-> IF pdf_link(e.links) = {} THEN << >>
                       ELSE CHOOSE h \in pdf_link(e.links) : TRUE,
         links_abs |-> IF html_abs(e.links) = {} THEN << >>
                       ELSE CHOOSE h \in html_abs(e.links) : TRUE,
         links_html |-> <<"https://ar5iv.org/html/", e.id.arxiv_id>>,
         extra |-> EmptyDict]

\* results.append({...}): the dict of an entry. cats is the list of its
\* category terms (",".join(cats) is held as the list); an entry without an
\* id suffix has v = 0.
FetchDict(e) ==
    LET t == ParsedTimes(e)
    IN  [arxiv_id |-> e.id.arxiv_id,
         version |-> IF e.id.v = 0 THEN 1 ELSE e.id.v,
         title |-> e.title,
         abstract |-> "",
         authors |-> "",
         categories |-> e.cats,
         primary_category |-> IF e.cats # << >> THEN e.cats[1] ELSE "unknown",
         submitted_at |-> _to_utc(t.pub_dt),
         updated_at |-> _to_utc(t.upd_dt),
         links_pdf |-> IF pdf_link(e.links) = {}
                       THEN <<"https://arxiv.org/pdf/", e.id.arxiv_id, ".pdf">>
                       ELSE CHOOSE h \in pdf_link(e.links) : TRUE,
         links_abs |-> IF html_abs(e.links) = {}
                       THEN <<"https://arxiv.org/abs/", e.id.arxiv_id>>
                       ELSE CHOOSE h \in html_abs(e.links) : TRUE,
         links_html |-> <<"https://ar5iv.org/html/", e.id.arxiv_id>>,
         extra |-> EmptyDict]

\* The loop of fetch_arxiv over the entries of the response.
RECURSIVE FetchLoop(_, _)
FetchLoop(entries, cutoff) ==
    IF entries = << >> THEN << >>
    ELSE IF Kept(Head(entries), cutoff)
    THEN <<FetchDict(Head(entries))>> \o FetchLoop(Tail(entries), cutoff)
    ELSE FetchLoop(Tail(entries), cutoff)

\* fetch_arxiv, from the response on
fetch_arxiv(entries, now_h, days_n) == FetchLoop(entries, Cutoff(now_h, days_n))

\* The id element of an entry, by what the pattern /abs/(\d{4}\.\d{4,5})(v(\d+))?
\* finds in it: nothing, an id without a version suffix (v = 0), an id with one.
FeedIds ==
    {[wellformed |-> TRUE, arxiv_id |-> "2501.00001", v |-> 0],
     [wellformed |-> TRUE, arxiv_id |-> "2501.00001", v |-> 2],
     [wellformed |-> FALSE, arxiv_id |-> "", v |-> 0]}

\* The published / updated elements of an entry: absent, unreadable, a naive
\* timestamp on the cutoff of a one-day window, an aware one whose wall clock
\* is before that cutoff and whose instant is on it, an aware one whose wall
\* clock is after that cutoff and whose instant is one minute before it.
FeedTimes ==
    {TsNone,
     TsGarbage,
     Ts(Cutoff(StartHour, 1), FALSE, 0),
     Ts(Cutoff(StartHour, 1) - 60, TRUE, 0 - 60),
     Ts(Cutoff(StartHour, 1) + 59, TRUE, 60)}

FeedEntries ==
    [id : FeedIds, title : {"T1"}, published : FeedTimes, updated : FeedTimes,
     links : {<< >>}, cats : {<< >>}]

\* A response has been received and waits to be parsed.
InitWindow ==
    /\ InitBase
    /\ track = "off"
    /\ upstream = << >>
    /\ feed \in SeqsUpTo(FeedEntries, MaxFeedLen)
    /\ submitted_iso = NoneStr
    /\ raw_entry = NoRaw

\* fetch_arxiv(cats, days, max_results) from `entries = text.split(...)` to
\* `return results`.
FetchParse ==
    /\ pc = "idle"
    /\ \E d \in DaysInputs :
          /\ days' = d
          /\ results' = fetch_arxiv(feed, clock, d)
    /\ now' = clock
    /\ pc' = "f_done"
    /\ UNCHANGED <<storeVars, config_kv, clock, track, cats, use_checkpoint, until,
                   cat_i, since, params, all_rows, page, histVars, harvestVars, feed,
                   annVars, extVars>>

\* The caller has the list; the locals are gone.
FetchDone ==
    /\ pc = "f_done"
    /\ pc' = "idle"
    /\ days' = 0
    /\ now' = 0
    /\ results' = << >>
    /\ UNCHANGED <<storeVars, config_kv, clock, track, cats, use_checkpoint, until,
                   cat_i, since, params, all_rows, page, histVars, harvestVars, feed,
                   annVars, extVars>>

NextWindow ==
    \/ FetchParse
    \/ FetchDone

SpecWindow == InitWindow /\ [][NextWindow]_vars

(* ----------------------------- ingest_today ---------------------------- *)
\* The entries the feed serves to ingest_today: a recent version 1, a recent
\* version 2, and a version 1 older than every window.
TodayEntries ==
    {[id |-> [wellformed |-> TRUE, arxiv_id |-> "2501.00001", v |-> 0], title |-> "T1",
      published |-> Ts(StartHour * 60, TRUE, 0), updated |-> TsNone,
      links |-> << >>, cats |-> << >>],
     [id |-> [wellformed |-> TRUE, arxiv_id |-> "2501.00001", v |-> 2], title |-> "T1",
      published |-> Ts(StartHour * 60, TRUE, 0), updated |-> Ts(StartHour * 60, TRUE, 0),
      links |-> << >>, cats |-> << >>],
     [id |-> [wellformed |-> TRUE, arxiv_id |-> "2501.00001", v |-> 0], title |-> "T2",
      published |-> Ts(Cutoff(StartHour, 2) - 1, TRUE, 0), updated |-> TsNone,
      links |-> << >>, cats |-> << >>]}

\* ingest_today_ep calls ingest_today, which calls fetch_arxiv: the request goes out.
TodayCall ==
    /\ pc = "idle"
    /\ \E d \in DaysInputs : days' = d
    /\ pc' = "t_request"
    /\ UNCHANGED <<storeVars, config_kv, clock, track, cats, use_checkpoint, now, until,
                   cat_i, since, params, all_rows, page, histVars, otherVars>>

\* The response has status 2xx: fetch_arxiv parses it and returns results.
TodayResponse ==
    /\ pc = "t_request"
    /\ \E entries \in SeqsUpTo(TodayEntries, MaxListLen) :
          /\ Len(UpsertLoop(papers, << >>, {}, fetch_arxiv(entries, clock, days)).papers)
                 <= MaxRows
          /\ feed' = entries
          /\ results' = fetch_arxiv(entries, clock, days)
    /\ now' = clock
    /\ pc' = "t_upsert"
    /\ UNCHANGED <<storeVars, config_kv, clock, track, cats, days, use_checkpoint, until,
                   cat_i, since, params, all_rows, page, histVars, harvestVars, annVars, extVars>>

\* mutant: the rows of a response cut short are stored before the error is raised
TodayFetchErrorPartial ==
    /\ pc = "t_request"
    /\ pc' = "t_raise"
    /\ \E e \in TodayEntries :
          /\ Len(upsert_papers(papers, <<FetchDict(e)>>).papers) <= MaxRows
          /\ papers' = upsert_papers(papers, <<FetchDict(e)>>).papers
    /\ UNCHANGED <<n_edits, last_op, config_kv, clock, track, callVars, histVars, otherVars>>

\* client.get raises, or raise_for_status does: the exception leaves
\* fetch_arxiv and ingest_today before anything is parsed or stored.
TodayFetchError ==
    /\ pc = "t_request"
    /\ pc' = "t_raise"
    /\ UNCHANGED <<storeVars, config_kv, clock, track, callVars, histVars, otherVars>>

\* await upsert_papers(session, papers)
TodayUpsert ==
    /\ pc = "t_upsert"
    /\ LET r == upsert_papers(papers, results)
       IN  /\ papers' = r.papers
           /\ pc' = IF r.ok THEN "t_return" ELSE "t_raise_store"
    /\ UNCHANGED <<n_edits, last_op, config_kv, clock, track, callVars, histVars, otherVars>>

\* ingest_today_ep answers with the count, or with 502 for an exception.
TodayEnd ==
    /\ pc \in {"t_return", "t_raise", "t_raise_store"}
    /\ pc' = "idle"
    /\ days' = 0
    /\ now' = 0
    /\ feed' = << >>
    /\ results' = << >>
    /\ UNCHANGED <<storeVars, config_kv, clock, track, cats, use_checkpoint, until,
                   cat_i, since, params, all_rows, page, histVars, harvestVars, annVars, extVars>>

NextToday ==
    \/ TodayCall
    \/ TodayResponse
    \/ TodayFetchError
    \/ TodayUpsert
    \/ TodayEnd

SpecToday == Init /\ [][NextToday]_vars

(* ------------------------- the announced date ------------------------- *)
\* The calendar: minute 0 is Monday 2024-10-28 00:00, a date is its day number
\* (day 0 is that Monday), a weekday is Mon=0..Sun=6.
MinutesPerDay == 24 * 60

\* America/New_York leaves daylight time on Sunday 2024-11-03 at 06:00 UTC.
DstEnd == 6 * MinutesPerDay + 6 * 60

\* the UTC offset of ET at a UTC instant, in minutes
ETOffset(utc) == IF utc < DstEnd THEN 0 - 4 * 60 ELSE 0 - 5 * 60

\* mutant: the wall clock of the string is taken for the ET wall clock
astimezone_ET_keep_wall(dt) == dt.wall

\* dt.astimezone(ET): the ET wall-clock minute of an aware datetime
astimezone_ET(dt) ==
    LET utc == dt.wall - dt.off
    IN  utc + ETOffset(utc)

\* dt_et.date()
DateOf(dt_et) == dt_et \div MinutesPerDay

\* dt_et.weekday()
weekday(dt_et) == DateOf(dt_et) % 7

\* mutant: the days from the target back to the base
next_weekday_backwards(base, target_wd) ==
    DateOf(base) + ((weekday(base) - target_wd) % 7)

\* next_weekday(base, target_wd)
next_weekday(base, target_wd) ==
    DateOf(base) + ((target_wd - weekday(base)) % 7)

\* mutant: 14:00 sharp still counts as before the cutoff
BeforeCutoffInclusive(dt_et) == dt_et % MinutesPerDay <= 14 * 60

\* t < cutoff, with t = dt_et.timetz() and cutoff = time(14, 0)
BeforeCutoff(dt_et) == dt_et % MinutesPerDay < 14 * 60

\* mutant: Thursday is handled like Monday to Wednesday
WeekdayRuleThuNextDay(dt_et) ==
    LET wd == weekday(dt_et)
    IN  IF wd \in {0, 1, 2, 3}
        THEN IF BeforeCutoff(dt_et) THEN DateOf(dt_et) ELSE DateOf(dt_et + MinutesPerDay)
        ELSE IF wd = 4
        THEN IF BeforeCutoff(dt_et) THEN next_weekday(dt_et, 6) ELSE next_weekday(dt_et, 0)
        ELSE next_weekday(dt_et, 0)

\* mutant: Friday before the cutoff is announced on Monday
WeekdayRuleFriMonday(dt_et) ==
    LET wd == weekday(dt_et)
    IN  IF wd \in {0, 1, 2}
        THEN IF BeforeCutoff(dt_et) THEN DateOf(dt_et) ELSE DateOf(dt_et + MinutesPerDay)
        ELSE IF wd = 3
        THEN IF BeforeCutoff(dt_et) THEN DateOf(dt_et) ELSE next_weekday(dt_et, 6)
        ELSE next_weekday(dt_et, 0)

\* mutant: Friday from the cutoff on is announced the next day
WeekdayRuleFriNextDay(dt_et) ==
    LET wd == weekday(dt_et)
    IN  IF wd \in {0, 1, 2}
        THEN IF BeforeCutoff(dt_et) THEN DateOf(dt_et) ELSE DateOf(dt_et + MinutesPerDay)
        ELSE IF wd = 3
        THEN IF BeforeCutoff(dt_et) THEN DateOf(dt_et) ELSE next_weekday(dt_et, 6)
        ELSE IF wd = 4
        THEN IF BeforeCutoff(dt_et) THEN next_weekday(dt_et, 6)
             ELSE DateOf(dt_et + MinutesPerDay)
        ELSE next_weekday(dt_et, 0)

\* The chain of `if wd == ...` of _announced_date.
WeekdayRule(dt_et) ==
    LET wd == weekday(dt_et)
    IN  IF wd \in {0, 1, 2}
        THEN IF BeforeCutoff(dt_et) THEN DateOf(dt_et) ELSE DateOf(dt_et + MinutesPerDay)
        ELSE IF wd = 3
        THEN IF BeforeCutoff(dt_et) THEN DateOf(dt_et) ELSE next_weekday(dt_et, 6)
        ELSE IF wd = 4
        THEN IF BeforeCutoff(dt_et) THEN next_weekday(dt_et, 6) ELSE next_weekday(dt_et, 0)
        ELSE next_weekday(dt_et, 0)

\* _announced_date(submitted_iso): {} for None, else the one date.
_announced_date(s) ==
    IF ~Truthy(s) THEN {}
    ELSE IF ParseRaises(s) THEN {}
    ELSE LET dt == IF ~s.aware THEN Ts(s.wall, TRUE, 0) ELSE s
         IN  {WeekdayRule(astimezone_ET(dt))}

\* The strings handed to _announced_date: an absent one, the empty one, an
\* unreadable one, and for every day up to MaxSubmitDay, every hour and the
\* first and the last minute of the hour, that wall clock without an offset,
\* marked UTC, marked -05:00 and marked +09:00.
SubmittedInputs ==
    {TsNone, TsEmpty, TsGarbage} \cup
    {Ts(d * MinutesPerDay + h * 60 + m, o[1], o[2]) :
        d \in 0..MaxSubmitDay, h \in 0..23, m \in {0, 59},
        o \in {<<FALSE, 0>>, <<TRUE, 0>>, <<TRUE, 0 - 5 * 60>>, <<TRUE, 9 * 60>>}}

\* The dates a request may ask for.
QueryDates == 0..(MaxSubmitDay + 3)

\* list_papers: the row passes `_announced_date(p.submitted_at) == announced_date`
list_papers_keeps(s, q) == _announced_date(s) = {q}

\* histogram_by_day: the row is counted (month: the dates of the month asked
\* for; without a month, the dates from the cutoff on)
histogram_counts(s, dates) == \E ad \in _announced_date(s) : ad \in dates

\* digest_daily: the row passes `ad == d_str`
digest_keeps(s, d) == _announced_date(s) = {d}

InitAnnounce ==
    /\ InitBase
    /\ track = "off"
    /\ upstream = << >>
    /\ feed = << >>
    /\ submitted_iso \in SubmittedInputs
    /\ raw_entry = NoRaw

\* mutant: the string is parsed outside the try block
AnnouncedCallNoTry ==
    /\ pc = "idle"
    /\ IF Truthy(submitted_iso) /\ ParseRaises(submitted_iso)
       THEN pc' = "a_raise" /\ UNCHANGED announced
       ELSE pc' = "a_done" /\ announced' = _announced_date(submitted_iso)
    /\ UNCHANGED <<storeVars, config_kv, clock, track, callVars, histVars, harvestVars,
                   fetchVars, submitted_iso, extVars>>

\* _announced_date(submitted_iso) is called and returns; every statement that
\* can raise is inside `try: ... except Exception: return None`.
AnnouncedCall ==
    /\ pc = "idle"
    /\ pc' = "a_done"
    /\ announced' = _announced_date(submitted_iso)
    /\ UNCHANGED <<storeVars, config_kv, clock, track, callVars, histVars, harvestVars,
                   fetchVars, submitted_iso, extVars>>

\* The caller has used the value.
AnnouncedUsed ==
    /\ pc \in {"a_done", "a_raise"}
    /\ pc' = "idle"
    /\ announced' = {}
    /\ UNCHANGED <<storeVars, config_kv, clock, track, callVars, histVars, harvestVars,
                   fetchVars, submitted_iso, extVars>>

NextAnnounce ==
    \/ AnnouncedCall
    \/ AnnouncedUsed

SpecAnnounce == InitAnnounce /\ [][NextAnnounce]_vars

(* ----------------------------- normalize ------------------------------- *)
\* The link elements an entry of the feed may carry.
AltLink == [href |-> <<"http://arxiv.org/abs/2501.00001v1">>, rel |-> "alternate",
            type |-> "text/html"]
PdfLink == [href |-> <<"http://arxiv.org/pdf/2501.00001v1">>, rel |-> "related",
            type |-> "application/pdf"]
DoiLink == [href |-> <<"http://dx.doi.org/10.1000/1">>, rel |-> "related", type |-> ""]

\* The entries handed to the Dialect A normalizers: an id with and without a
\* version suffix and one the pattern does not match; timestamps absent,
\* unreadable, on the cutoff of a one-day window and a minute before it; no
\* link, either link, both, and a link that is neither; no category, one, two.
NormEntries ==
    [id : FeedIds,
     title : {"T1"},
     published : {TsNone, TsGarbage, Ts(Cutoff(StartHour, 1), FALSE, 0),
                  Ts(Cutoff(StartHour, 1) - 1, TRUE, 0)},
     updated : {TsNone, TsGarbage, Ts(Cutoff(StartHour, 1), FALSE, 0),
                Ts(Cutoff(StartHour, 1) - 1, TRUE, 0)},
     links : {<< >>, <<AltLink>>, <<PdfLink>>, <<PdfLink, AltLink>>, <<DoiLink>>},
     cats : {<< >>, <<"cs.CV">>, <<"cs.LG", "cs.CV">>}]

\* The chunks handed to the Dialect B normalizer: those of a response, a
\* record with categories, and a record without a metadata element.
NormChunks ==
    RawRecords \cup
    {[RawRecord(<<"oai", "arXiv", "2501.00001">>, "T1", <<VLabel(TRUE, {1})>>)
         EXCEPT !.categories = <<"cs.LG", "cs.CV">>],
     [RawRecord(<<"oai", "arXiv", "2501.00001">>, "", << >>)
         EXCEPT !.metadata = FALSE]}

NormInputs ==
    [dialect : {"window", "by_id"}, entry : NormEntries]
        \cup [dialect : {"oai"}, entry : NormChunks]

\* One turn of the loop of fetch_arxiv_by_ids: the id pattern, no window.
by_id_entry(e) == IF e.id.wellformed THEN {FetchDict(e)} ELSE {}

\* One turn of the loop of fetch_arxiv.
window_entry(e, cutoff) == IF Kept(e, cutoff) THEN {FetchDict(e)} ELSE {}

\* What the normalizer of the entry's dialect makes of it: {} for no record.
normalize(r, cutoff) ==
    IF r.dialect = "window" THEN window_entry(r.entry, cutoff)
    ELSE IF r.dialect = "by_id" THEN by_id_entry(r.entry)
    ELSE _parse_oai_record(r.entry, FALSE)

InitNormalize ==
    /\ InitBase
    /\ track = "off"
    /\ upstream = << >>
    /\ feed = << >>
    /\ submitted_iso = NoneStr
    /\ raw_entry \in NormInputs

\* The raw entry goes through its normalizer (the windowed one with days = 1).
NormalizeCall ==
    /\ pc = "idle"
    /\ raw_entry.dialect # "none"
    /\ days' = 1
    /\ now' = clock
    /\ record' = normalize(raw_entry, Cutoff(clock, 1))
    /\ pc' = "n_done"
    /\ UNCHANGED <<storeVars, config_kv, clock, track, cats, use_checkpoint, until,
                   cat_i, since, params, all_rows, page, histVars, harvestVars,
                   fetchVars, annVars, pageVars, raceVars, raw_entry>>

\* The caller has the record; the locals are gone.
NormalizeUsed ==
    /\ pc = "n_done"
    /\ pc' = "idle"
    /\ days' = 0
    /\ now' = 0
    /\ record' = {}
    /\ UNCHANGED <<storeVars, config_kv, clock, track, cats, use_checkpoint, until,
                   cat_i, since, params, all_rows, page, histVars, harvestVars,
                   fetchVars, annVars, pageVars, raceVars, raw_entry>>

NextNormalize ==
    \/ NormalizeCall
    \/ NormalizeUsed

SpecNormalize == InitNormalize /\ [][NextNormalize]_vars

(* ------------------- upsert_papers in two sessions --------------------- *)
\* The lists the concurrent calls are given: one record each.
RaceLists == {<<r>> : r \in ArxivRecords}

\* The rows the calls in flight may still insert.
InFlight == {s \in Sessions : sess[s].pc \in {"lookup", "commit"}}

RECURSIVE SumLen(_)
SumLen(S) ==
    IF S = {} THEN 0
    ELSE LET s == CHOOSE x \in S : TRUE
         IN  Len(sess[s].L) + SumLen(S \ {s})

\* upsert_papers(session, papers) is called in session s.
UpsertCall(s) ==
    /\ sess[s].pc = "idle"
    /\ \E L \in RaceLists :
          /\ Len(papers) + SumLen(InFlight) + Len(L) <= MaxRows
          /\ sess' = [sess EXCEPT ![s] = [pc |-> "lookup", L |-> L, i |-> 1,
                                          pending |-> << >>, updates |-> << >>]]
    /\ UNCHANGED <<storeVars, oaiVars, harvestVars, fetchVars, annVars, pageVars,
                   runs, normVars>>

\* One turn of the loop: the select is awaited and sees the rows committed
\* by now (the session neither autoflushes nor sees what another session has
\* not committed); the row found is changed in the session, or a new row is
\* added to it. After the last record the commit is awaited.
UpsertLookup(s) ==
    /\ sess[s].pc = "lookup"
    /\ LET p == sess[s].L[sess[s].i]
           m == Matches(papers, p)
           next_pc == IF sess[s].i = Len(sess[s].L) THEN "commit" ELSE "lookup"
       IN  sess' = [sess EXCEPT ![s] =
                IF Cardinality(m) > 1
                THEN [@ EXCEPT !.pc = "raise"]
                ELSE IF m # {}
                THEN [@ EXCEPT !.updates = Append(@, <<CHOOSE j \in m : TRUE, p>>),
                               !.i = @ + 1, !.pc = next_pc]
                ELSE [@ EXCEPT !.pending = Append(@, p), !.i = @ + 1, !.pc = next_pc]]
    /\ UNCHANGED <<storeVars, oaiVars, harvestVars, fetchVars, annVars, pageVars,
                   runs, normVars>>

\* The UPDATEs of the flush, in order.
RECURSIVE ApplyUpdates(_, _)
ApplyUpdates(rows, updates) ==
    IF updates = << >> THEN rows
    ELSE ApplyUpdates([rows EXCEPT ![Head(updates)[1]] = SetAttrs(@, Head(updates)[2])],
                      Tail(updates))

\* The INSERTs of the flush, in order; the table has no unique constraint on
\* (arxiv_id, version), so every one of them succeeds.
RECURSIVE ApplyInserts(_, _)
ApplyInserts(rows, pending) ==
    IF pending = << >> THEN rows
    ELSE ApplyInserts(Append(rows, NewPaper(Head(pending), Len(rows) + 1)), Tail(pending))

\* await session.commit(): the flush and the commit, in one transaction.
UpsertCommit(s) ==
    /\ sess[s].pc = "commit"
    /\ papers' = ApplyInserts(ApplyUpdates(papers, sess[s].updates), sess[s].pending)
    /\ sess' = [sess EXCEPT ![s].pc = "done"]
    /\ UNCHANGED <<n_edits, last_op, oaiVars, harvestVars, fetchVars, annVars, pageVars,
                   runs, normVars>>

\* The call has returned or raised; the request is answered.
UpsertReturn(s) ==
    /\ sess[s].pc \in {"done", "raise"}
    /\ sess' = [sess EXCEPT ![s] = IdleSession]
    /\ UNCHANGED <<storeVars, oaiVars, harvestVars, fetchVars, annVars, pageVars,
                   runs, normVars>>

NextRace ==
    \/ \E s \in Sessions : UpsertCall(s)
    \/ \E s \in Sessions : UpsertLookup(s)
    \/ \E s \in Sessions : UpsertCommit(s)
    \/ \E s \in Sessions : UpsertReturn(s)

SpecRace == Init /\ [][NextRace]_vars

(* --------------------- ingest_oai calls that overlap -------------------- *)
\* ingest_oai(session, [c]) is called in slot s: now is read and until fixed;
\* the harvest of c is awaited.
RunStart(s) ==
    /\ runs[s].pc = "idle"
    /\ \E c \in Cats :
          runs' = [runs EXCEPT ![s] = [pc |-> "harvest", cat |-> c,
                                       until |-> _utc_date_only(clock)]]
    /\ UNCHANGED <<storeVars, oaiVars, harvestVars, fetchVars, annVars, pageVars,
                   sess, normVars>>

\* The harvest returns without a record (the range holds none), so nothing
\* is upserted; set_oai_checkpoint is awaited.
RunHarvested(s) ==
    /\ runs[s].pc = "harvest"
    /\ runs' = [runs EXCEPT ![s].pc = "checkpoint"]
    /\ UNCHANGED <<storeVars, oaiVars, harvestVars, fetchVars, annVars, pageVars,
                   sess, normVars>>

\* await set_oai_checkpoint(session, cat, until); the call returns.
RunSetCheckpoint(s) ==
    /\ runs[s].pc = "checkpoint"
    /\ config_kv' = set_oai_checkpoint(config_kv, runs[s].cat, runs[s].until)
    /\ runs' = [runs EXCEPT ![s] = IdleRun]
    /\ UNCHANGED <<storeVars, clock, pc, callVars, histVars, track, harvestVars, fetchVars,
                   annVars, pageVars, sess, normVars>>

NextOverlap ==
    \/ \E s \in Sessions : RunStart(s)
    \/ \E s \in Sessions : RunHarvested(s)
    \/ \E s \in Sessions : RunSetCheckpoint(s)
    \/ Tick

SpecOverlap == Init /\ [][NextOverlap]_vars

(* ----------------------- the ingestion operations ---------------------- *)
NextIngest ==
    \/ IngestToday
    \/ IngestById
    \/ OaiStartOne
    \/ OaiLoop
    \/ OaiResponse
    \/ OaiTransportError
    \/ OaiSleepDone
    \/ OaiUpsert
    \/ OaiSetCheckpoint
    \/ OaiEnd

\* The operations that write the table papers on behalf of the feeds:
\* ingest_today, ingest_by_id, and ingest_oai for one category.
SpecIngest == Init /\ [][NextIngest]_vars

(* ------------------------------- claims ------------------------------- *)
SameKey(a, b) == a.arxiv_id = b.arxiv_id /\ a.version = b.version

\* C1: no two stored rows have the same (external_id, version), whatever
\* record lists upsert_papers has been given.
C1_KeyUniqueness ==
    \A i, j \in DOMAIN papers : SameKey(papers[i], papers[j]) => i = j

\* C2: from every reachable store and for every record list L, upsert_papers(L)
\* called twice completes and leaves the rows that one call leaves.
C2_UpsertIdempotent ==
    \A L \in SeqsUpTo(ArxivRecords, MaxListLen) :
        LET once == upsert_papers(papers, L)
            twice == upsert_papers(once.papers, L)
        IN  once.ok /\ twice.ok /\ twice.papers = once.papers

\* C3: a step of upsert_papers leaves state, tags and signals of every row
\* that was stored before it as they were.
C3_UpsertKeepsWorkflow ==
    [][last_op'.op \in {"upsert", "upsert_error"} =>
         /\ Len(papers') >= Len(papers)
         /\ \A i \in DOMAIN papers :
               /\ papers'[i].state = papers[i].state
               /\ papers'[i].tags = papers[i].tags
               /\ papers'[i].signals = papers[i].signals]_vars

\* C3 happens: the last step was an upsert that updated a stored row whose
\* state and tags a user had set.
C3_Witness ==
    /\ last_op.op = "upsert"
    /\ \E i \in last_op.updated :
          /\ papers[i].state = "shortlist"
          /\ papers[i].tags = [list |-> {"ml"}]

\* C4: a step of upsert_papers leaves the extra bag of every row that was
\* stored before it as it was.
C4_UpsertKeepsExtra ==
    [][last_op'.op \in {"upsert", "upsert_error"} =>
         \A i \in DOMAIN papers : papers'[i].extra = papers[i].extra]_vars

\* C5 as stated: when a harvest fails with a transport error, the watermark
\* of its category is the one stored before the ingest_oai call.
C5_WatermarkAsBeforeCall ==
    pc = "raise_transport" =>
        get_oai_checkpoint(config_kv, cat) = get_oai_checkpoint(kv_call, cat)

\* C5 amended: when a harvest fails with a transport error, the error leaves
\* ingest_oai with config_kv as it was when the pass of that category began,
\* which is its value before the call unless the category occurs earlier in
\* the call's list.
C5_WatermarkAsBeforePass ==
    pc = "raise_transport" =>
        /\ config_kv = kv_pass
        /\ (\A j \in 1..(cat_i - 1) : cats[j] # cat) =>
              get_oai_checkpoint(config_kv, cat) = get_oai_checkpoint(kv_call, cat)

\* C5 happens: the second page of a harvest failed, for a category whose
\* stored watermark is older than the until of the pass.
C5_Witness ==
    /\ pc = "raise_transport"
    /\ page = 2
    /\ \E w \in get_oai_checkpoint(config_kv, cat) : w < until

\* every record of L has a row of its key, holding the fields of the last
\* record of L with that key
AllUpserted(rows, L) ==
    \A k \in DOMAIN L :
        \E i \in DOMAIN rows :
            /\ SameKey(rows[i], L[k])
            /\ \A m \in DOMAIN L :
                  (SameKey(L[m], L[k]) /\ \A n \in (m + 1)..Len(L) : ~SameKey(L[n], L[k]))
                      => \E i2 \in DOMAIN rows : SetAttrs(rows[i2], L[m]) = rows[i2]

\* C6: config_kv is written only by the step that follows the upsert of a
\* finished harvest; that step finds every harvested record stored and sets
\* the category's watermark to until; a harvest of zero records goes on to it.
C6_CheckpointAfterUpsert ==
    [][/\ pc # "checkpoint" => config_kv' = config_kv
       /\ pc = "checkpoint" =>
             /\ get_oai_checkpoint(config_kv', cat) = {until}
             /\ AllUpserted(papers, all_rows)
       /\ (pc = "upsert" /\ all_rows = << >>) => pc' = "checkpoint"]_vars

\* C6 happens: a pass that harvested no record has moved the watermark of its
\* category to until, and an earlier pass of the call stored its records.
C6_Witness ==
    /\ pc = "return"
    /\ all_rows = << >>
    /\ get_oai_checkpoint(config_kv, cat) = {until}
    /\ get_oai_checkpoint(kv_pass, cat) # {until}
    /\ Len(papers) > 0

\* C7: a stored watermark is never removed and never replaced by an earlier date.
C7_WatermarkMonotone ==
    [][\A c \in Cats :
          \A w \in get_oai_checkpoint(config_kv, c) :
              \E w2 \in get_oai_checkpoint(config_kv', c) : w2 >= w]_vars

\* C7 happens: a pass run without use_checkpoint has replaced a stored
\* watermark by a later one although its range began before the old one.
C7_Witness ==
    /\ pc = "return"
    /\ ~use_checkpoint
    /\ \E w \in get_oai_checkpoint(kv_pass, cat) :
          /\ since < w
          /\ \E w2 \in get_oai_checkpoint(config_kv, cat) : w2 > w

\* C8: every date from the from of a category's first successful pass up to
\* its stored watermark lies in the range of a successful pass.
C8_NoGap ==
    \A c \in DOMAIN first_from :
        \A w \in get_oai_checkpoint(config_kv, c) :
            \A d \in first_from[c]..w : d \in covered[c]

\* C9: the first request of the pass that follows a failed pass of the same
\* category, made with the same arguments, carries the from of the failed pass.
C9_RetrySameFrom ==
    (/\ pc = "request"
     /\ page = 1
     /\ cat \in DOMAIN failed
     /\ use_checkpoint
     /\ failed[cat].use_checkpoint
     /\ failed[cat].days = days)
        => params.from = failed[cat].from

\* C10: while a harvest awaits a page or sleeps between two pages, and when it
\* is cancelled there, config_kv is as it was when the pass began.
C10_NoWriteMidHarvest ==
    pc \in {"request", "sleep", "cancelled"} => config_kv = kv_pass

\* C10 happens: a harvest was cancelled in the delay after its first page, for
\* a category whose stored watermark is older than the until of the pass.
C10_Witness ==
    /\ pc = "cancelled"
    /\ page = 1
    /\ "resumptionToken" \in DOMAIN params
    /\ \E w \in get_oai_checkpoint(config_kv, cat) : w < until

\* the records of a page of the mock upstream: one for each <record> element
\* of its body (each of them is well formed and not deleted)
RecordsOfPage(t) == [n \in DOMAIN t.chunks |-> OaiRecordDict(t.chunks[n])]

\* the records of the first n pages of us, in order
RECURSIVE Concat(_, _)
Concat(us, n) ==
    IF n = 0 THEN << >> ELSE Concat(us, n - 1) \o RecordsOfPage(us[n].text)

\* C11: a harvest against an upstream of N pages always returns; when it
\* returns it has sent exactly N requests and its result is every record of
\* page 1, then every record of page 2, ..., then every record of page N.
C11_HarvestReturnsAllPages ==
    /\ [](pc = "h_return" =>
            /\ page = Len(upstream)
            /\ Len(requests) = Len(upstream)
            /\ all_rows = Concat(upstream, Len(upstream)))
    /\ (pc = "h_request" ~> pc = "h_return")

\* C12: the first request of a harvest carries verb=ListRecords,
\* metadataPrefix, set, from and until; every later request carries exactly
\* verb=ListRecords and the token of the response before it.
C12_RequestParams ==
    \A i \in DOMAIN requests :
        IF i = 1
        THEN /\ DOMAIN requests[i] = {"verb", "metadataPrefix", "set", "from", "until"}
             /\ requests[i].verb = "ListRecords"
        ELSE requests[i] = [verb |-> "ListRecords",
                            resumptionToken |-> ParseToken(upstream[i - 1].raw)]

\* C12 happens: three requests were sent, the second and the third with
\* different tokens.
C12_Witness ==
    /\ Len(requests) = 3
    /\ requests[2].resumptionToken # requests[3].resumptionToken

\* the instant of a timestamp string, in minutes (a string without an offset
\* is read as UTC)
UtcMinute(s) == IF s.aware THEN s.wall - s.off ELSE s.wall

OnOrAfter(s, cutoff) == s.kind = "ts" /\ UtcMinute(s) >= cutoff

\* the entry belongs in the result: its id is well formed and its published
\* or its updated timestamp is on or after the cutoff
Included(e, cutoff) ==
    /\ e.id.wellformed
    /\ (OnOrAfter(e.published, cutoff) \/ OnOrAfter(e.updated, cutoff))

RECURSIVE IncludedKeys(_, _)
IncludedKeys(entries, cutoff) ==
    IF entries = << >> THEN << >>
    ELSE (IF Included(Head(entries), cutoff)
          THEN <<<<Head(entries).id.arxiv_id, Head(entries).id.v>>>>
          ELSE << >>) \o IncludedKeys(Tail(entries), cutoff)

\* C13: the list fetch_arxiv returns holds, in the order of the feed, one
\* record for each entry with a well-formed id that has at least one of its
\* two timestamps on or after now - days, whatever the other timestamp is,
\* and no record for any other entry.
C13_WindowFilter ==
    pc = "f_done" =>
        [i \in DOMAIN results |->
            <<results[i].arxiv_id, IF results[i].version = 1 THEN 0 ELSE results[i].version>>]
          = IncludedKeys(feed, Cutoff(now, days))

\* C14: no step from the call of ingest_today to the answer that follows a
\* failed feed request changes the table papers, and the failed request
\* leaves fetch_arxiv with no list of records.
C14_FetchFailureStoresNothing ==
    [][/\ (pc \in {"t_request", "t_raise"} \/ pc' \in {"t_request", "t_raise"}) =>
             papers' = papers
       /\ pc' = "t_raise" => results' = << >>]_vars

\* C14 happens: the feed request of an ingest_today call has failed while the
\* store holds rows of an earlier call.
C14_Witness ==
    /\ pc = "t_raise"
    /\ Len(papers) > 0

\* New York local time of the instant a timestamp string denotes: the wall
\* clock minute, the calendar day, the weekday (Mon=0..Sun=6), the minute of
\* the day
NYLocal(s) == UtcMinute(s) + ETOffset(UtcMinute(s))
NYDay(s) == NYLocal(s) \div MinutesPerDay
NYWeekday(s) == NYDay(s) % 7
NYMinuteOfDay(s) == NYLocal(s) % MinutesPerDay

\* _announced_date has returned for a string that holds a date and time
Answered == pc = "a_done" /\ submitted_iso.kind = "ts"

\* C15: for an instant on a New York Monday, Tuesday or Wednesday the result
\* is that local day before 14:00 and the next day from 14:00 on.
C15_MonTueWed ==
    (Answered /\ NYWeekday(submitted_iso) \in {0, 1, 2}) =>
        announced = {IF NYMinuteOfDay(submitted_iso) < 14 * 60
                     THEN NYDay(submitted_iso)
                     ELSE NYDay(submitted_iso) + 1}

\* C15 happens: a string marked +09:00 that is Wednesday 14:00 sharp in New
\* York was answered with the Thursday.
C15_Witness ==
    /\ Answered
    /\ submitted_iso.off = 9 * 60
    /\ NYWeekday(submitted_iso) = 2
    /\ NYMinuteOfDay(submitted_iso) = 14 * 60
    /\ announced = {NYDay(submitted_iso) + 1}

\* C16: for an instant on a New York Thursday the result is that Thursday
\* before 14:00 and the Sunday three days later from 14:00 on.
C16_Thursday ==
    (Answered /\ NYWeekday(submitted_iso) = 3) =>
        announced = {IF NYMinuteOfDay(submitted_iso) < 14 * 60
                     THEN NYDay(submitted_iso)
                     ELSE NYDay(submitted_iso) + 3}

\* C16 happens: Thursday 14:00 sharp in New York was answered with the Sunday,
\* and the string was a UTC one of the Thursday evening.
C16_Witness ==
    /\ Answered
    /\ submitted_iso.aware
    /\ submitted_iso.off = 0
    /\ NYWeekday(submitted_iso) = 3
    /\ NYMinuteOfDay(submitted_iso) = 14 * 60
    /\ announced = {NYDay(submitted_iso) + 3}
    /\ (NYDay(submitted_iso) + 3) % 7 = 6

\* C17: for an instant on a New York Friday the result is the Sunday two days
\* later before 14:00 and the Monday three days later from 14:00 on.
C17_Friday ==
    (Answered /\ NYWeekday(submitted_iso) = 4) =>
        announced = {IF NYMinuteOfDay(submitted_iso) < 14 * 60
                     THEN NYDay(submitted_iso) + 2
                     ELSE NYDay(submitted_iso) + 3}

\* C17 happens: Friday 13:59 in New York was answered with the Sunday.
C17_Witness ==
    /\ Answered
    /\ NYWeekday(submitted_iso) = 4
    /\ NYMinuteOfDay(submitted_iso) = 13 * 60 + 59
    /\ announced = {NYDay(submitted_iso) + 2}

\* C18: for an instant on a New York Saturday or Sunday, at any time of day,
\* the result is the first Monday after that day.
C18_Weekend ==
    (Answered /\ NYWeekday(submitted_iso) \in {5, 6}) =>
        announced = {IF NYWeekday(submitted_iso) = 5
                     THEN NYDay(submitted_iso) + 2
                     ELSE NYDay(submitted_iso) + 1}

\* C18 happens: a Sunday evening in New York, after the end of daylight time
\* and already Monday in UTC, was answered with the Monday.
C18_Witness ==
    /\ Answered
    /\ NYWeekday(submitted_iso) = 6
    /\ NYMinuteOfDay(submitted_iso) >= 14 * 60
    /\ UtcMinute(submitted_iso) >= DstEnd
    /\ UtcMinute(submitted_iso) \div MinutesPerDay = NYDay(submitted_iso) + 1
    /\ announced = {NYDay(submitted_iso) + 1}

\* C19: _announced_date never raises; for an absent, empty or unreadable
\* string it returns None, and list_papers, histogram_by_day and digest_daily
\* then leave the paper out whatever date is asked for.
C19_NoneForUnparsable ==
    /\ pc # "a_raise"
    /\ (pc = "a_done" /\ submitted_iso.kind \in {"none", "empty", "garbage"}) =>
          /\ announced = {}
          /\ \A q \in QueryDates :
                /\ ~list_papers_keeps(submitted_iso, q)
                /\ ~digest_keeps(submitted_iso, q)
          /\ ~histogram_counts(submitted_iso, QueryDates)

\* C19 happens: _announced_date has returned None for an unreadable string.
C19_Witness ==
    /\ pc = "a_done"
    /\ submitted_iso.kind = "garbage"
    /\ announced = {}

\* C20: every string that denotes the instant of the string answered, under
\* whatever offset, gets the same answer; a string without an offset counts
\* as the same wall clock marked UTC.
C20_SameInstantSameDate ==
    Answered =>
        \A s2 \in SubmittedInputs :
            (s2.kind = "ts" /\ UtcMinute(s2) = UtcMinute(submitted_iso))
                => _announced_date(s2) = announced

\* C20 happens: a string marked +09:00 was answered, and the inputs hold the
\* same instant marked -05:00, marked UTC and without an offset.
C20_Witness ==
    /\ Answered
    /\ submitted_iso.off = 9 * 60
    /\ announced # {}
    /\ \E s2 \in SubmittedInputs :
          s2.kind = "ts" /\ s2.off = 0 - 5 * 60 /\ UtcMinute(s2) = UtcMinute(submitted_iso)
    /\ \E s3 \in SubmittedInputs :
          s3.kind = "ts" /\ s3.aware /\ s3.off = 0 /\ UtcMinute(s3) = UtcMinute(submitted_iso)
    /\ \E s4 \in SubmittedInputs :
          s4.kind = "ts" /\ ~s4.aware /\ UtcMinute(s4) = UtcMinute(submitted_iso)

\* the records of the first n chunks of t that are not flagged deleted
RECURSIVE LiveRecords(_, _)
LiveRecords(t, n) ==
    IF n = 0 THEN << >>
    ELSE LiveRecords(t, n - 1) \o
         (IF t.chunks[n].status = "deleted" \/ ParseAt(t, n) = {} THEN << >>
          ELSE <<CHOOSE r \in ParseAt(t, n) : TRUE>>)

\* the ids that t names in records flagged deleted and in no other record
DeletedOnlyIds(t) ==
    {LastPart(t.chunks[n].identifier) :
        n \in {m \in DOMAIN t.chunks : /\ t.chunks[m].status = "deleted"
                                       /\ t.chunks[m].identifier # << >>}}
    \ {LastPart(t.chunks[n].identifier) :
        n \in {m \in DOMAIN t.chunks : /\ t.chunks[m].status # "deleted"
                                       /\ t.chunks[m].identifier # << >>}}

\* the stored rows of one arxiv_id, in table order
RowsOf(rows, x) == SelectSeq(rows, LAMBDA r : r.arxiv_id = x)

\* C21: the list a harvest hands to the upsert holds no record made of a
\* chunk flagged deleted, and the upsert leaves the rows of an id that the
\* response names in deleted records only as they were, adding none.
C21_DeletedNeverStored ==
    /\ [](pc \in {"upsert", "checkpoint"} =>
             all_rows = LiveRecords(text, Len(text.chunks)))
    /\ [][pc = "upsert" =>
             \A x \in DeletedOnlyIds(text) : RowsOf(papers', x) = RowsOf(papers, x)]_vars

\* C21 happens: a pass has upserted the live record of a response that also
\* held a deleted record, complete with metadata, of an id that is stored.
C21_Witness ==
    /\ pc = "checkpoint"
    /\ all_rows # << >>
    /\ \E n \in DOMAIN text.chunks :
          /\ text.chunks[n].status = "deleted"
          /\ text.chunks[n].metadata
          /\ ~(n = Len(text.chunks) /\ text.tail)
          /\ LastPart(text.chunks[n].identifier) \in DeletedOnlyIds(text)
          /\ RowsOf(papers, LastPart(text.chunks[n].identifier)) # << >>

\* C22: every record a normalizer hands over and every stored row has
\* version >= 1.
C22_VersionPositive ==
    /\ \A i \in DOMAIN all_rows : all_rows[i].version >= 1
    /\ \A i \in DOMAIN papers : papers[i].version >= 1

\* the chunk is a well-formed record: XML that parses, a header with an
\* identifier, no deleted flag, a metadata element with an arXiv element
WellFormedChunk(c) ==
    c.xml /\ c.header /\ c.status # "deleted" /\ c.identifier # << >> /\ c.metadata

\* the chunk is malformed: XML that does not parse, or an empty identifier
MalformedChunk(c) == ~c.xml \/ c.identifier = << >>

\* one record for each well-formed chunk among the first n, in order
RECURSIVE WellFormedRecords(_, _)
WellFormedRecords(t, n) ==
    IF n = 0 THEN << >>
    ELSE WellFormedRecords(t, n - 1) \o
         (IF WellFormedChunk(t.chunks[n])
          THEN <<OaiRecordDict(t.chunks[n])>>
          ELSE << >>)

\* C24: when a response holds one malformed chunk among well-formed records,
\* the list made of it holds the record of every well-formed one, in order.
C24_BadEntrySkipped ==
    (/\ pc = "upsert"
     /\ Cardinality({n \in DOMAIN text.chunks : MalformedChunk(text.chunks[n])}) = 1
     /\ \A n \in DOMAIN text.chunks :
           MalformedChunk(text.chunks[n]) \/ WellFormedChunk(text.chunks[n]))
        => all_rows = WellFormedRecords(text, Len(text.chunks))

\* the raw entry has a well-formed identifier, no link and no category
NoLinksNoCats(r) ==
    IF r.dialect = "oai"
    THEN /\ r.entry.xml /\ r.entry.header /\ r.entry.status # "deleted"
         /\ r.entry.identifier # << >>
         /\ r.entry.categories = << >>
    ELSE /\ r.entry.id.wellformed
         /\ r.entry.links = << >>
         /\ r.entry.cats = << >>

\* the external id of the raw entry
ExternalId(r) ==
    IF r.dialect = "oai" THEN LastPart(r.entry.identifier) ELSE r.entry.id.arxiv_id

\* the record carries the default links of the id and no primary category
HasDefaults(rec, id) ==
    /\ rec.arxiv_id = id
    /\ rec.links_pdf = <<"https://arxiv.org/pdf/", id, ".pdf">>
    /\ rec.links_abs = <<"https://arxiv.org/abs/", id>>
    /\ rec.links_html = <<"https://ar5iv.org/html/", id>>
    /\ rec.primary_category = "unknown"

Admitted(r, cutoff) ==
    IF r.dialect = "window"
    THEN /\ r.entry.published.kind # "garbage"
         /\ r.entry.updated.kind # "garbage"
         /\ (OnOrAfter(r.entry.published, cutoff) \/ OnOrAfter(r.entry.updated, cutoff))
    ELSE IF r.dialect = "oai" THEN r.entry.metadata
    ELSE TRUE

C25_RaceOneRow ==
    (\A s \in Sessions : sess[s].pc = "done") =>
        \A s \in Sessions : \A k \in DOMAIN sess[s].L :
            Cardinality(Matches(papers, sess[s].L[k])) = 1

\* C28: no write of a checkpoint by any of the overlapping ingest_oai calls
\* replaces the stored watermark of a category by an earlier date.
C28_OverlapMonotone ==
    [][\A c \in Cats :
          \A w \in get_oai_checkpoint(config_kv, c) :
              \A w2 \in get_oai_checkpoint(config_kv', c) : w <= w2]_vars

\* C26: no step of an ingestion operation removes a row or changes the
\* (arxiv_id, version) of a row: every key stored before the step is stored
\* after it.
C26_NoRowDeleted ==
    [][\A i \in DOMAIN papers :
          i \in DOMAIN papers' /\ SameKey(papers'[i], papers[i])]_vars

\* C26 happens: an ingest_oai pass has upserted its records into a table
\* that held a version 2 row stored by the windowed feed, and the row is there.
C26_Witness ==
    /\ pc = "checkpoint"
    /\ all_rows # << >>
    /\ Len(papers) = 2
    /\ \E i \in DOMAIN papers : papers[i].version = 2

\* the title, abstract, authors, categories, timestamps and links of a row
\* are those of the record
IngestionFieldsOf(row, p) ==
    /\ row.title = p.title
    /\ row.abstract = p.abstract
    /\ row.authors = p.authors
    /\ row.categories = p.categories
    /\ row.primary_category = p.primary_category
    /\ row.submitted_at = p.submitted_at
    /\ row.updated_at = p.updated_at
    /\ row.links_pdf = p.links_pdf
    /\ row.links_abs = p.links_abs
    /\ row.links_html = p.links_html

\* the last record of L with the key of p
LastWithKey(L, p) ==
    L[CHOOSE k \in DOMAIN L :
         SameKey(L[k], p) /\ \A n \in (k + 1)..Len(L) : ~SameKey(L[n], p)]

\* C27: from every reachable store and for every record list L, when
\* upsert_papers(L) returns every key of L is stored and every stored row of
\* that key holds the ingestion fields of the last record of L with the key.
C27_FieldsOfLastRecord ==
    \A L \in ArxivLists :
        LET r == upsert_papers(papers, L)
        IN  r.ok =>
               \A k \in DOMAIN L :
                  /\ Matches(r.papers, L[k]) # {}
                  /\ \A i \in Matches(r.papers, L[k]) :
                        IngestionFieldsOf(r.papers[i], LastWithKey(L, L[k]))

\* C29: ingest_oai moves from one category to the next of the list only by
\* the checkpoint write that ends a pass; a failed request changes neither
\* the table papers nor config_kv and ends the call; when it has failed,
\* every category before the failed one has watermark until, config_kv is as
\* it was when the failed pass began, and every category that the list holds
\* only after the failed one has the watermark it had before the call.
C29_SequentialCategories ==
    /\ [](pc = "raise_transport" =>
             /\ \A j \in 1..(cat_i - 1) : get_oai_checkpoint(config_kv, cats[j]) = {until}
             /\ config_kv = kv_pass
             /\ \A c \in Cats \ {cats[j] : j \in 1..cat_i} :
                   get_oai_checkpoint(config_kv, c) = get_oai_checkpoint(kv_call, c))
    /\ [][/\ cat_i' # cat_i =>
                \/ pc = "idle" /\ cat_i' = 1
                \/ pc = "checkpoint" /\ cat_i' = cat_i + 1
                \/ pc' = "idle"
          /\ (pc' = "request" /\ page' = 1) =>
                params'.set = <<"cs:", CatOai[cats'[cat_i']]>>
          /\ (pc = "raise_transport" \/ pc' = "raise_transport") =>
                /\ papers' = papers
                /\ config_kv' = config_kv
          /\ pc = "raise_transport" => pc' = "idle"]_vars

\* C29 happens: the harvest of the second of two different categories has
\* failed; the records of the first are stored and its watermark is until,
\* the watermark of the second is not.
C29_Witness ==
    /\ pc = "raise_transport"
    /\ cat_i = 2
    /\ cats[1] # cats[2]
    /\ Len(papers) > 0
    /\ get_oai_checkpoint(config_kv, cats[1]) = {until}
    /\ get_oai_checkpoint(config_kv, cats[2]) # {until}

\* C30: the date returned for a readable string is a Sunday, Monday, Tuesday,
\* Wednesday or Thursday and lies 0 to 3 days after the New York local date
\* of the instant.
C30_AnnouncedWeekdayRange ==
    Answered =>
        \E d \in announced :
            /\ announced = {d}
            /\ d % 7 \in {6, 0, 1, 2, 3}
            /\ d - NYDay(submitted_iso) \in 0..3

\* C30 happens: a Friday afternoon in New York was answered with the Monday
\* three days later.
C30_Witness ==
    /\ Answered
    /\ NYWeekday(submitted_iso) = 4
    /\ NYMinuteOfDay(submitted_iso) >= 14 * 60
    /\ announced = {NYDay(submitted_iso) + 3}
    /\ (NYDay(submitted_iso) + 3) % 7 = 0

====
